---- MODULE Spec2Model ----
(***************************************************************************)
(* A model of tyme (src/tyme/tyme.py, src/tyme/commands.py): the TymeSheet *)
(* with its three collections and its four mutating operations, and the    *)
(* text codec (Task/Entry line rendering and parsing, TymeSheet.__str__    *)
(* and TymeSheet.from_file), tag_filter, the steps of save and to_file on   *)
(* the persisted file and its backup, and the commands of commands.py.     *)
(*                                                                         *)
(* Text is modelled at character level: a string is a sequence of          *)
(* one-character strings, a document is a sequence of lines, each line     *)
(* ended by a newline that is not stored.  A datetime (always of year      *)
(* 2000, see now() and parse_time) is the number of seconds since          *)
(* 2000-01-01 00:00:00; a timedelta is a number of seconds.                *)
(***************************************************************************)
EXTENDS Integers, Sequences, FiniteSets, TLC

VARIABLES todo, time, done, last, ops, doc, res, calls, file, bak, pc

vars == <<todo, time, done, last, ops, doc, res, calls, file, bak, pc>>

\* Python's None, for a deadline or an end that is not set.
None == -1

\* What a path that names no file holds.  The content of a file is a document, a
\* sequence of lines of characters; this value is none, its one line holds a
\* word where a character would be.
Absent == << <<"absent">> >>

(***************************************************************************)
(* Bounds of the model.                                                    *)
(***************************************************************************)
\* Number of command invocations in one run of the command specification.
MaxCmds == 3

\* Number of operation calls in one run of the Sheet specification.
MaxOps == 4

\* Entries in the time log of a Sheet that is written, and entry lines in the
\* Time section of a document that is read.
MaxEntries == 2

\* Task names the calls draw from.
Names == { <<"a", "b">>, <<"c", "d">> }

\* Tag lists the calls draw from.
TagLists == { <<>>, << <<"x", "y">> >> }

\* 01-01 09:00:00, 01-01 09:45:00, 01-01 10:00:00.
Times == { 32400, 35100, 36000 }

(***************************************************************************)
(* OrderedDict of tasks keyed by name: a sequence of Task records with     *)
(* distinct names, in insertion order.                                     *)
(***************************************************************************)
Task(name, tags, deadline) == [name |-> name, tags |-> tags, deadline |-> deadline]

Entry(task, start, end) == [task |-> task, start |-> start, end |-> end]

Keys(d) == { d[i].name : i \in DOMAIN d }

\* d[name] = task: replaces the value in place when the key exists, appends otherwise.
DictSet(d, task) ==
    IF task.name \in Keys(d)
    THEN [i \in DOMAIN d |-> IF d[i].name = task.name THEN task ELSE d[i]]
    ELSE Append(d, task)

DictGet(d, name) == d[CHOOSE i \in DOMAIN d : d[i].name = name]

\* d.pop(name), for a key that exists: the dict without it.
DictPop(d, name) == SelectSeq(d, LAMBDA t : t.name # name)

\* `time or now()`: a datetime is always truthy, None is not.
TimeOr(t, nowv) == IF t = None THEN nowv ELSE t

(***************************************************************************)
(* TymeSheet operations.  S is a Sheet [todo, time, done]; the result is   *)
(* [sheet, err, ret]: the Sheet as the call leaves it, the exception that  *)
(* escapes ("" for none) and the value returned.                           *)
(***************************************************************************)
Ok(S, ret) == [sheet |-> S, err |-> "", ret |-> ret]

Raise(S, e) == [sheet |-> S, err |-> e, ret |-> <<>>]

\* Index of the open entry when it is the last of the log, 0 for None.
current_entry(S) ==
    IF S.time # <<>> /\ S.time[Len(S.time)].end = None THEN Len(S.time) ELSE 0

\* A variant that stores the task before it looks for the name.
add_task_store_first(S, name, tags) ==
    LET stored == [S EXCEPT !.todo = DictSet(S.todo, Task(name, tags, None))]
    IN  IF name \in Keys(S.todo) THEN Raise(stored, "TymeError") ELSE Ok(stored, <<>>)

add_task(S, name, tags) ==
    IF name \in Keys(S.todo)
    THEN Raise(S, "TymeError")
    ELSE Ok([S EXCEPT !.todo = DictSet(S.todo, Task(name, tags, None))], <<>>)

\* Another variant of clock_out: it sets the end of the last entry, open or not.
clock_out_last(S, t, nowv) ==
    IF S.time = <<>>
    THEN Raise(S, "TymeError")
    ELSE Ok([S EXCEPT !.time[Len(S.time)].end = TimeOr(t, nowv)], S.time[Len(S.time)].task)

\* Sets the end of the current entry without going through Entry.__init__.
clock_out(S, t, nowv) ==
    LET c == current_entry(S) IN
    IF c = 0
    THEN Raise(S, "TymeError")
    ELSE Ok([S EXCEPT !.time[c].end = TimeOr(t, nowv)], S.time[c].task)

\* A variant that leaves the current entry open.
clock_in_no_close(S, task, t, nowv) ==
    Ok([S EXCEPT !.time = Append(S.time, Entry(task, TimeOr(t, nowv), None))], <<>>)

clock_in(S, task, t, nowv) ==
    LET tm == TimeOr(t, nowv)
        out == IF current_entry(S) # 0 THEN clock_out(S, tm, nowv) ELSE Ok(S, <<>>)
    IN  IF out.err # ""
        THEN out
        ELSE Ok([out.sheet EXCEPT !.time = Append(out.sheet.time, Entry(task, tm, None))],
                <<>>)

\* A variant that moves the task to done without assigning the deadline.
complete_task_no_deadline(S, task_name, t, nowv) ==
    IF task_name \notin Keys(S.todo)
    THEN Raise(S, "TymeError")
    ELSE LET task   == DictGet(S.todo, task_name)
             moved  == [S EXCEPT !.todo = DictPop(S.todo, task_name),
                                 !.done = DictSet(S.done, task)]
             c      == current_entry(moved)
         IN  IF c # 0 /\ moved.time[c].task = task_name
             THEN [clock_out(moved, TimeOr(t, nowv), nowv) EXCEPT !.ret = <<>>]
             ELSE Ok(moved, <<>>)

\* A variant that clocks out whatever task the current entry belongs to.
complete_task_any_entry(S, task_name, t, nowv) ==
    IF task_name \notin Keys(S.todo)
    THEN Raise(S, "TymeError")
    ELSE LET task   == DictGet(S.todo, task_name)
             tm     == TimeOr(t, nowv)
             moved  == [S EXCEPT !.todo = DictPop(S.todo, task_name),
                                 !.done = DictSet(S.done, [task EXCEPT !.deadline = tm])]
         IN  IF current_entry(moved) # 0
             THEN [clock_out(moved, tm, nowv) EXCEPT !.ret = <<>>]
             ELSE Ok(moved, <<>>)

complete_task(S, task_name, t, nowv) ==
    IF task_name \notin Keys(S.todo)
    THEN Raise(S, "TymeError")
    ELSE LET task   == DictGet(S.todo, task_name)
             tm     == TimeOr(t, nowv)
             moved  == [S EXCEPT !.todo = DictPop(S.todo, task_name),
                                 !.done = DictSet(S.done, [task EXCEPT !.deadline = tm])]
             c      == current_entry(moved)
         IN  IF c # 0 /\ moved.time[c].task = task_name
             THEN LET out == clock_out(moved, tm, nowv)
                  IN  [out EXCEPT !.ret = <<>>]
             ELSE Ok(moved, <<>>)

\* set(tags) of a tag sequence.
TagSet(tags) == { tags[i] : i \in DOMAIN tags }

\* A variant of tag_filter without the early return for an empty filter.
tag_filter_no_return(S, tags) ==
    LET keep(t) == TagSet(tags) \subseteq TagSet(t.tags)
        ftodo   == SelectSeq(S.todo, keep)
        fdone   == SelectSeq(S.done, keep)
        ftime   == SelectSeq(S.time, LAMBDA e : e.task \in Keys(ftodo) \cup Keys(fdone))
    IN  Ok(S, [todo |-> ftodo, time |-> ftime, done |-> fdone])

\* A variant of tag_filter that keeps a task when it has any of the filter's tags.
tag_filter_any(S, tags) ==
    LET keep(t) == TagSet(tags) \cap TagSet(t.tags) # {}
        ftodo   == SelectSeq(S.todo, keep)
        fdone   == SelectSeq(S.done, keep)
        ftime   == SelectSeq(S.time, LAMBDA e : e.task \in Keys(ftodo) \cup Keys(fdone))
    IN  IF tags = <<>> THEN Ok(S, S)
        ELSE Ok(S, [todo |-> ftodo, time |-> ftime, done |-> fdone])

\* tag_filter(*tags): the receiver as the call leaves it, and in ret the Sheet
\* returned: the receiver itself for no tags, else TymeSheet(todo, time, done) of
\* the tasks whose tags hold every filter tag and of the entries of those tasks.
tag_filter(S, tags) ==
    LET keep(t) == TagSet(tags) \subseteq TagSet(t.tags)
        ftodo   == SelectSeq(S.todo, keep)
        fdone   == SelectSeq(S.done, keep)
        ftime   == SelectSeq(S.time, LAMBDA e : e.task \in Keys(ftodo) \cup Keys(fdone))
    IN  IF tags = <<>> THEN Ok(S, S)
        ELSE Ok(S, [todo |-> ftodo, time |-> ftime, done |-> fdone])

(***************************************************************************)
(* Characters and text.                                                    *)
(***************************************************************************)
DigitChars == <<"0", "1", "2", "3", "4", "5", "6", "7", "8", "9">>

Letters ==
    { "a", "b", "c", "d", "e", "f", "g", "h", "i", "j", "k", "l", "m",
      "n", "o", "p", "q", "r", "s", "t", "u", "v", "w", "x", "y", "z",
      "A", "B", "C", "D", "E", "F", "G", "H", "I", "J", "K", "L", "M",
      "N", "O", "P", "Q", "R", "S", "T", "U", "V", "W", "X", "Y", "Z" }

\* \d
IsDigit(c) == \E i \in DOMAIN DigitChars : DigitChars[i] = c

\* \w
IsWord(c) == c \in Letters \/ IsDigit(c) \/ c = "_"

\* \s (a line is stored without its newline, and no other blank is written)
IsSpace(c) == c = " "

\* [\w ,]
IsTagChar(c) == IsWord(c) \/ c = " " \/ c = ","

DigitVal(c) == (CHOOSE i \in DOMAIN DigitChars : DigitChars[i] = c) - 1

RECURSIVE NumVal(_)
\* int() of a run of digits.
NumVal(s) ==
    IF s = <<>> THEN 0
    ELSE 10 * NumVal(SubSeq(s, 1, Len(s) - 1)) + DigitVal(s[Len(s)])

RECURSIVE Dec(_)
\* The decimal digits of n >= 0.
Dec(n) ==
    IF n < 10 THEN <<DigitChars[n + 1]>>
    ELSE Dec(n \div 10) \o <<DigitChars[(n % 10) + 1]>>

\* '{:02.0f}'.format(n) for a whole n, and '%m', '%d', '%H', '%M' of strftime.
Fmt02(n) ==
    IF n < 0 THEN <<"-">> \o Dec(-n)
    ELSE IF n < 10 THEN <<"0">> \o Dec(n)
    ELSE Dec(n)

Spaces(n) == [i \in 1..n |-> " "]

\* '{:<width>}'.format(s): s padded on the right with spaces, never cut.
PadRight(s, width) == IF Len(s) >= width THEN s ELSE s \o Spaces(width - Len(s))

\* '{:^width}'.format(s): the smaller half of the padding goes left.
Center(s, width) ==
    IF Len(s) >= width THEN s
    ELSE LET pad == width - Len(s)
         IN  Spaces(pad \div 2) \o s \o Spaces(pad - pad \div 2)

RECURSIVE SkipSpaces(_, _)
\* The first index from i on that holds no blank (Len(s) + 1 when none).
SkipSpaces(s, i) ==
    IF i > Len(s) \/ ~IsSpace(s[i]) THEN i ELSE SkipSpaces(s, i + 1)

RECURSIVE SkipDigits(_, _)
SkipDigits(s, i) ==
    IF i > Len(s) \/ ~IsDigit(s[i]) THEN i ELSE SkipDigits(s, i + 1)

RECURSIVE SkipTagChars(_, _)
SkipTagChars(s, i) ==
    IF i > Len(s) \/ ~IsTagChar(s[i]) THEN i ELSE SkipTagChars(s, i + 1)

\* str.strip()
Strip(s) ==
    LET a == SkipSpaces(s, 1)
        b == IF a > Len(s) THEN 0
             ELSE CHOOSE j \in a..Len(s) :
                      /\ ~IsSpace(s[j])
                      /\ \A k \in (j + 1)..Len(s) : IsSpace(s[k])
    IN  SubSeq(s, a, b)

RECURSIVE Split(_)
\* str.split(', ')
Split(s) ==
    LET hits == { i \in 1..(Len(s) - 1) : s[i] = "," /\ s[i + 1] = " " }
    IN  IF hits = {} THEN <<s>>
        ELSE LET i == CHOOSE h \in hits : \A g \in hits : h <= g
             IN  <<SubSeq(s, 1, i - 1)>> \o Split(SubSeq(s, i + 2, Len(s)))

RECURSIVE Join(_)
\* ', '.join(tags)
Join(tags) ==
    IF tags = <<>> THEN <<>>
    ELSE IF Len(tags) = 1 THEN tags[1]
    ELSE tags[1] \o <<",", " ">> \o Join(Tail(tags))

(***************************************************************************)
(* Time utilities.                                                         *)
(***************************************************************************)
\* Days of the months of 2000, the year every datetime is moved to.
MonthDays2000 == <<31, 29, 31, 30, 31, 30, 31, 31, 30, 31, 30, 31>>

\* Days of the months of 1900, the year strptime assumes when none is given.
MonthDays1900 == <<31, 28, 31, 30, 31, 30, 31, 31, 30, 31, 30, 31>>

RECURSIVE DaysBefore(_)
\* Days of 2000 before the first of month m.
DaysBefore(m) == IF m = 1 THEN 0 ELSE DaysBefore(m - 1) + MonthDays2000[m - 1]

\* datetime(2000, month, day, hour, minute, second)
DateTime(month, day, hour, minute, second) ==
    (DaysBefore(month) + day - 1) * 86400 + hour * 3600 + minute * 60 + second

MonthOf(t) ==
    LET yday == t \div 86400
    IN  CHOOSE m \in 1..12 : DaysBefore(m) <= yday /\ yday < DaysBefore(m) + MonthDays2000[m]

DayOf(t) == (t \div 86400) - DaysBefore(MonthOf(t)) + 1

\* strftime(TIME_FMT), TIME_FMT = '%m-%d %H:%M': the seconds are not written.
fmt_time(t) ==
    Fmt02(MonthOf(t)) \o <<"-">> \o Fmt02(DayOf(t)) \o <<" ">>
        \o Fmt02((t % 86400) \div 3600) \o <<":">> \o Fmt02((t % 3600) \div 60)

\* '(HH:MM)' of a timedelta of secs seconds: floor division, hours not wrapped.
fmt_delta(secs) ==
    LET hrs  == secs \div 3600
        mins == (secs \div 60) % 60
    IN  <<"(">> \o Fmt02(hrs) \o <<":">> \o Fmt02(mins) \o <<")">>

\* End of \d+-\d+[ ]\d\d:\d\d matched at i (0 when it does not match).
DateEnd(s, i) ==
    LET a == SkipDigits(s, i)
        b == SkipDigits(s, a + 1)
    IN  IF /\ a > i
           /\ a <= Len(s) /\ s[a] = "-"
           /\ b > a + 1
           /\ b + 5 <= Len(s)
           /\ s[b] = " "
           /\ IsDigit(s[b + 1]) /\ IsDigit(s[b + 2])
           /\ s[b + 3] = ":"
           /\ IsDigit(s[b + 4]) /\ IsDigit(s[b + 5])
        THEN b + 5
        ELSE 0

\* parse_time of a string the date pattern matched: strptime with TIME_FMT, moved to
\* 2000.  A ValueError sends it to strptime with '%H:%M', which cannot read a string
\* holding '-': the ValueError of that second call escapes.
parse_time(s) ==
    LET a     == SkipDigits(s, 1)
        b     == SkipDigits(s, a + 1)
        month == NumVal(SubSeq(s, 1, a - 1))
        day   == NumVal(SubSeq(s, a + 1, b - 1))
        hour  == NumVal(SubSeq(s, b + 1, b + 2))
        mins  == NumVal(SubSeq(s, b + 4, b + 5))
    IN  IF /\ a - 1 <= 2 /\ month \in 1..12
           /\ b - a - 1 <= 2 /\ day >= 1 /\ day <= MonthDays1900[month]
           /\ hour <= 23
           /\ mins <= 59
        THEN [err |-> "", val |-> DateTime(month, day, hour, mins, 0)]
        ELSE [err |-> "ValueError", val |-> None]

(***************************************************************************)
(* Record lines: Task and Entry rendering and parsing.                     *)
(***************************************************************************)
\* Entry.time: end - start, or now() - start for the open entry.
EntryTime(e, nowv) == IF e.end = None THEN nowv - e.start ELSE e.end - e.start

RECURSIVE SumTime(_, _, _)
\* Task.time: the sum of Entry.time over the log's entries of the task.
SumTime(log, name, nowv) ==
    IF log = <<>> THEN 0
    ELSE (IF log[1].task = name THEN EntryTime(log[1], nowv) ELSE 0)
             + SumTime(Tail(log), name, nowv)

Sep3 == <<" ", " ", " ">>

\* Task.to_string: '   '.join((total, name, deadline, tags)).strip()
Task_to_string(task, S, nowv) ==
    Strip(fmt_delta(SumTime(S.time, task.name, nowv)) \o Sep3
          \o PadRight(task.name, 20) \o Sep3
          \o PadRight(IF task.deadline # None THEN fmt_time(task.deadline) ELSE <<>>, 11) \o Sep3
          \o Join(task.tags))

\* Entry.__str__
Entry_str(e, nowv) ==
    fmt_delta(EntryTime(e, nowv)) \o Sep3
        \o PadRight(e.task, 20) \o Sep3
        \o fmt_time(e.start) \o Sep3
        \o (IF e.end = None THEN <<"-", "-">> ELSE fmt_time(e.end))

\* REGEX['total_time'], \(\d\d:\d\d\), at the start of the line.
HasTotal(s) ==
    /\ Len(s) >= 7
    /\ s[1] = "(" /\ IsDigit(s[2]) /\ IsDigit(s[3]) /\ s[4] = ":"
    /\ IsDigit(s[5]) /\ IsDigit(s[6]) /\ s[7] = ")"

RECURSIVE SkipName(_, _)
\* Greedy (?:\w+[ ]?)+ from i: word characters, and single blanks that a word
\* character follows.
SkipName(s, i) ==
    IF i > Len(s) THEN i
    ELSE IF IsWord(s[i]) THEN SkipName(s, i + 1)
    ELSE IF s[i] = " " /\ i + 1 <= Len(s) /\ IsWord(s[i + 1]) THEN SkipName(s, i + 1)
    ELSE i

\* Last index of REGEX['task'], (?:\w+[ ]?)+\w, matched at i: at least two
\* characters, the first and the last of them word characters (0: no match).
TaskEnd(s, i) ==
    IF i > Len(s) \/ ~IsWord(s[i]) THEN 0
    ELSE LET j == SkipName(s, i) IN IF j - i >= 2 THEN j - 1 ELSE 0

\* Where the task starts: after the optional total time and \s*.
TaskStart(s) == SkipSpaces(s, IF HasTotal(s) THEN 8 ELSE 1)

\* (\s\s+{date})? after the name that ends at te: the end of the date (0: the
\* group is empty).
DeadlineEnd(s, te) ==
    LET w == SkipSpaces(s, te + 1)
    IN  IF w - (te + 1) >= 2 THEN DateEnd(s, w) ELSE 0

\* Where the next group starts: after the date that ends at de, or after the
\* name that ends at te when there is no date.
GroupStart(te, de) == IF de # 0 THEN de + 1 ELSE te + 1

\* (\s\s+{tags})? from p, {tags} = [\w ,]+\w: the end of the tags (0: the group
\* is empty).  The blanks may be given back to the class.
TagsEnd(s, p) ==
    LET w2 == SkipSpaces(s, p)
        r  == SkipTagChars(s, w2)
        ws == { k \in w2..(r - 1) : IsWord(s[k]) }
        q  == IF ws = {} THEN 0 ELSE CHOOSE k \in ws : \A k2 \in ws : k2 <= k
    IN  IF w2 - p >= 2 /\ q # 0 /\ (q > w2 \/ w2 - p >= 3) THEN q ELSE 0

\* tags.strip().split(', ') if tags else ()
TagsOf(s, p, q) == IF q # 0 THEN Split(Strip(SubSeq(s, p, q))) ELSE <<>>

\* parse_time(deadline) if deadline else None
DeadlineOf(s, te, de) ==
    IF de # 0 THEN parse_time(Strip(SubSeq(s, te + 1, de)))
    ELSE [err |-> "", val |-> None]

\* ParseError without a match, the error of parse_time, or Task(task, tags, deadline).
TaskRecord(te, name, tags, deadline) ==
    IF te = 0 THEN [err |-> "ParseError", val |-> <<>>]
    ELSE IF deadline.err # "" THEN [err |-> deadline.err, val |-> <<>>]
    ELSE [err |-> "", val |-> Task(name, tags, deadline.val)]

\* Task.from_string: Task.regex, then the tags split and the deadline parsed.
Task_from_string(s) ==
    LET i  == TaskStart(s)
        te == TaskEnd(s, i)
        de == DeadlineEnd(s, te)
        p  == GroupStart(te, de)
        q  == TagsEnd(s, p)
    IN  TaskRecord(te, SubSeq(s, i, te), TagsOf(s, p, q), DeadlineOf(s, te, de))

\* \s\s+ after index e and then something: where that starts (0 when nothing
\* ended at e or fewer than two blanks follow).
FieldStart(s, e) ==
    LET w == SkipSpaces(s, e + 1)
    IN  IF e # 0 /\ w - (e + 1) >= 2 THEN w ELSE 0

\* The end of the date matched at a (0 when a is 0 or no date is there).
FieldDateEnd(s, a) == IF a = 0 THEN 0 ELSE DateEnd(s, a)

\* '--' at b.
IsDashes(s, b) == b # 0 /\ b + 1 <= Len(s) /\ s[b] = "-" /\ s[b + 1] = "-"

\* ({date}|--) matched at b: its end (0 when b is 0 or neither is there).
EndFieldEnd(s, b) ==
    IF b = 0 THEN 0 ELSE IF IsDashes(s, b) THEN b + 1 ELSE DateEnd(s, b)

\* parse_time(end) if end != '--' else None
EndOf(s, b, ee) ==
    IF IsDashes(s, b) THEN [err |-> "", val |-> None] ELSE parse_time(SubSeq(s, b, ee))

\* ParseError without a match, the error of a parse_time, or Entry(task, start, end),
\* whose __init__ refuses an end before the start.
EntryRecord(ee, name, start, end) ==
    IF ee = 0 THEN [err |-> "ParseError", val |-> <<>>]
    ELSE IF start.err # "" THEN [err |-> start.err, val |-> <<>>]
    ELSE IF end.err # "" THEN [err |-> end.err, val |-> <<>>]
    ELSE IF end.val # None /\ end.val < start.val THEN [err |-> "TymeError", val |-> <<>>]
    ELSE [err |-> "", val |-> Entry(name, start.val, end.val)]

\* Entry.from_string: Entry.regex (the second definition), the times parsed,
\* then Entry.__init__.
Entry_from_string(s) ==
    LET i  == TaskStart(s)
        te == TaskEnd(s, i)
        a  == FieldStart(s, te)
        de == FieldDateEnd(s, a)
        b  == FieldStart(s, de)
        ee == EndFieldEnd(s, b)
    IN  EntryRecord(ee, SubSeq(s, i, te), parse_time(SubSeq(s, a, de)), EndOf(s, b, ee))

(***************************************************************************)
(* The document codec: TymeSheet.__str__ and TymeSheet.from_file.          *)
(***************************************************************************)
TodoWord == <<"T", "o", "d", "o">>
TimeWord == <<"T", "i", "m", "e">>
DoneWord == <<"D", "o", "n", "e">>
\* '%s' % None, the break word of the last section.
NoneWord == <<"N", "o", "n", "e">>

\* '{:^70}'.format(title)
TitleLine(title) == Center(title, 70)

\* '-' * 70
RuleLine == [i \in 1..70 |-> "-"]

\* section(title, lines): the title, the rule, the lines and an empty line.
Section(title, lines) == <<TitleLine(title), RuleLine>> \o lines \o << <<>> >>

\* TymeSheet.__str__, as the lines of the text that to_file writes: '\n'.join ends
\* every line but the last with a newline, and the last line is the empty one.
TymeSheet_str(S, nowv) ==
    LET all == Section(TodoWord, [i \in DOMAIN S.todo |-> Task_to_string(S.todo[i], S, nowv)])
               \o Section(TimeWord, [i \in DOMAIN S.time |-> Entry_str(S.time[i], nowv)])
               \o Section(DoneWord, [i \in DOMAIN S.done |-> Task_to_string(S.done[i], S, nowv)])
    IN  SubSeq(all, 1, Len(all) - 1)

\* re.match(r' {10,}<word>', line)
IsHeader(line, word) ==
    LET n == SkipSpaces(line, 1) - 1
    IN  n >= 10 /\ n + Len(word) <= Len(line) /\ SubSeq(line, n + 1, n + Len(word)) = word

\* re.match(r'-{10,}', line)
IsRule(line) == Len(line) >= 10 /\ \A i \in 1..10 : line[i] = "-"

\* The lines from_file reads: those with len(line) > 2, the newline counted.
NonEmptyLines(d) == SelectSeq(d, LAMBDA line : Len(line) + 1 > 2)

RECURSIVE DictOf(_)
\* OrderedDict of (name, task) pairs: a later pair of the same name replaces the value.
DictOf(tasks) ==
    IF tasks = <<>> THEN <<>>
    ELSE DictSet(DictOf(SubSeq(tasks, 1, Len(tasks) - 1)), tasks[Len(tasks)])

\* A variant that checks nothing.
Validate_nothing(S) == ""

\* TymeSheet._validate: no entry but the last may be unfinished.
Validate(S) ==
    IF \A i \in 1..(Len(S.time) - 1) : S.time[i].end # None THEN "" ELSE "ParseError"

\* line_class.from_string(line)
from_string(line_class, line) ==
    IF line_class = "Entry" THEN Entry_from_string(line) ELSE Task_from_string(line)

\* Where the loop of parse breaks: the first line from i on that the header
\* pattern of the break word matches (Len(lines) + 1 when the file ends first).
SectionEnd(lines, i, word) ==
    IF \E k \in i..Len(lines) : IsHeader(lines[k], word)
    THEN CHOOSE k \in i..Len(lines) :
             /\ IsHeader(lines[k], word)
             /\ \A k2 \in i..(k - 1) : ~IsHeader(lines[k2], word)
    ELSE Len(lines) + 1

\* line_class.from_string of the lines parse yields, those from i up to the break.
SectionRecords(line_class, lines, i, b) ==
    [k \in 1..(b - i) |-> from_string(line_class, lines[i + k - 1])]

\* What parse makes of the records recs read up to the break at b: the first
\* failing record raises; after the break, next(file) skips the rule,
\* assert_match checks it, and the records are the section.
EndSection(lines, b, recs, isLast, pep479) ==
    LET n     == Len(lines)
        bad   == { k \in DOMAIN recs : recs[k].err # "" }
        items == [k \in DOMAIN recs |-> recs[k].val]
    IN  IF bad # {}
        THEN [err |-> recs[CHOOSE k \in bad : \A k2 \in bad : k <= k2].err,
              items |-> <<>>, next |-> n + 1]
        ELSE IF b > n
        THEN [err |-> IF isLast THEN "" ELSE "ParseError", items |-> items, next |-> n + 1]
        ELSE IF b + 1 > n
        THEN [err |-> IF pep479 THEN "RuntimeError" ELSE "", items |-> items, next |-> n + 1]
        ELSE IF ~IsRule(lines[b + 1])
        THEN [err |-> "ParseError", items |-> <<>>, next |-> n + 1]
        ELSE [err |-> "", items |-> items, next |-> b + 2]

\* The generator parse(line_class, file, break_word) run to its end from line i of
\* lines: [err, items, next].  Lines are read up to the break header, each one
\* parsed by line_class.from_string; the first line that fails raises.  At the header the next
\* line must be a rule; when there is no next line, next(file) raises StopIteration
\* inside the generator, which Python 3.7 and later turn into RuntimeError and
\* earlier versions take as the generator's end (pep479 tells which).  Without a
\* header the section ends with the file, which is an error unless it is the last.
ParseSection(line_class, lines, i, word, isLast, pep479) ==
    EndSection(lines, SectionEnd(lines, i, word),
               SectionRecords(line_class, lines, i, SectionEnd(lines, i, word)),
               isLast, pep479)

Failed(e) == [kind |-> e, todo |-> <<>>, time |-> <<>>, done |-> <<>>]

\* The one element of a set of one.
Only(S) == CHOOSE x \in S : TRUE

\* TymeSheet(todo, time, done) of the three sections read, then sheet._validate().
Validated(td, tm, dn) ==
    LET S == [todo |-> DictOf(td.items), time |-> tm.items, done |-> DictOf(dn.items)]
    IN  IF Validate(S) # "" THEN Failed(Validate(S))
        ELSE [kind |-> "ok", todo |-> S.todo, time |-> S.time, done |-> S.done]

\* OrderedDict(done): the Done section, read to the end of the file.
ReadDone(lines, td, tm, pep479) ==
    Only({ IF dn.err # "" THEN Failed(dn.err) ELSE Validated(td, tm, dn) :
           dn \in { ParseSection("Task", lines, tm.next, NoneWord, TRUE, pep479) } })

\* list(time): the Time section, read up to the Done header.
ReadTime(lines, td, pep479) ==
    Only({ IF tm.err # "" THEN Failed(tm.err) ELSE ReadDone(lines, td, tm, pep479) :
           tm \in { ParseSection("Entry", lines, td.next, DoneWord, FALSE, pep479) } })

\* OrderedDict(todo): the Todo section, read up to the Time header.  TymeSheet.__init__
\* runs the three generators one after the other, so an error of an earlier section
\* escapes before a later section is read.
ReadTodo(lines, pep479) ==
    Only({ IF td.err # "" THEN Failed(td.err) ELSE ReadTime(lines, td, pep479) :
           td \in { ParseSection("Task", lines, 3, TimeWord, FALSE, pep479) } })

\* The first two lines, next(file) twice: the Todo header and its rule.
ReadHead(lines, pep479) ==
    IF Len(lines) = 0 THEN Failed("StopIteration")
    ELSE IF ~IsHeader(lines[1], TodoWord) THEN Failed("ParseError")
    ELSE IF Len(lines) = 1 THEN Failed("StopIteration")
    ELSE IF ~IsRule(lines[2]) THEN Failed("ParseError")
    ELSE ReadTodo(lines, pep479)

\* TymeSheet.from_file on the document d: [kind, todo, time, done], kind "ok" with
\* the Sheet returned, or the exception that escapes.
from_file(d, pep479) ==
    Only({ ReadHead(lines, pep479) : lines \in { NonEmptyLines(d) } })

(***************************************************************************)
(* The Sheet specification: any sequence of calls on an empty Sheet.       *)
(***************************************************************************)
Sheet == [todo |-> todo, time |-> time, done |-> done]

\* `last` is the last call: its operation, task name, time (after `or now()`),
\* the index of the entry that was current when it was made, and its exception.
NoCall == [op |-> "", name |-> <<>>, time |-> None, was |-> 0, err |-> ""]

Init ==
    /\ todo = <<>>
    /\ time = <<>>
    /\ done = <<>>
    /\ last = NoCall
    /\ ops = 0
    /\ doc = <<>>
    /\ res = Failed("")
    /\ calls = <<>>
    /\ file = Absent
    /\ bak = Absent
    /\ pc = "idle"

\* The call's outcome becomes the state; `last` records the call.
Called(op, name, t, r) ==
    /\ ops < MaxOps
    /\ todo' = r.sheet.todo
    /\ time' = r.sheet.time
    /\ done' = r.sheet.done
    /\ last' = [op |-> op, name |-> name, time |-> t,
                was |-> current_entry(Sheet), err |-> r.err]
    /\ ops' = ops + 1
    /\ UNCHANGED <<doc, res, calls, file, bak, pc>>

AddTask ==
    \E name \in Names, tags \in TagLists :
        Called("add_task", name, None, add_task(Sheet, name, tags))

ClockIn ==
    \E name \in Names, t \in Times \cup {None}, nowv \in Times :
        Called("clock_in", name, TimeOr(t, nowv), clock_in(Sheet, name, t, nowv))

ClockOut ==
    \E t \in Times \cup {None}, nowv \in Times :
        Called("clock_out", <<>>, TimeOr(t, nowv), clock_out(Sheet, t, nowv))

CompleteTask ==
    \E name \in Names, t \in Times \cup {None}, nowv \in Times :
        Called("complete_task", name, TimeOr(t, nowv), complete_task(Sheet, name, t, nowv))

Next == AddTask \/ ClockIn \/ ClockOut \/ CompleteTask

Spec == Init /\ [][Next]_vars

(***************************************************************************)
(* The codec specification: a Sheet is written with to_file and the text   *)
(* read back with from_file, or a document that was written by hand or in  *)
(* the editor is read with from_file.  `last.op` tells where doc is from,  *)
(* res holds what from_file gave.                                          *)
(***************************************************************************)
SeqsUpTo(S, n) == UNION { [1..k -> S] : k \in 0..n }

\* The global invariants of a Sheet (section 3 of the specification).
SheetInvariants(S) ==
    /\ Keys(S.todo) \cap Keys(S.done) = {}
    /\ \A i \in DOMAIN S.time : S.time[i].end = None => i = Len(S.time)
    /\ \A i \in DOMAIN S.time : S.time[i].end # None => S.time[i].end >= S.time[i].start

\* 01-01 09:00:00, 01-01 09:45:30, 01-06 09:45:00.
CodecTimes == { 32400, 35130, 467100 }

\* now() when the Sheet is written: 01-01 00:00:00 and 01-01 12:00:00.
CodecNow == { 0, 43200 }

CodecNames == { <<"a", "b">>, <<"a">> }

CodecEntries ==
    { Entry(<<"a", "b">>, st, en) : st \in CodecTimes, en \in CodecTimes \cup {None} }

CodecSheets ==
    { S \in [todo : {<<>>} \cup { <<Task(n, tg, None)>> : n \in CodecNames, tg \in TagLists },
             time : SeqsUpTo(CodecEntries, MaxEntries),
             done : {<<>>} \cup { <<Task(n, <<>>, 36000)>> : n \in CodecNames }] :
          SheetInvariants(S) }

\* Lines of documents: record lines without the total time, as a hand may write them.
EntryLine(name, start, end) == name \o Sep3 \o start \o Sep3 \o end

EntryLineChoices ==
    { EntryLine(<<"a", "b">>, fmt_time(32400), fmt_time(35100)),
      EntryLine(<<"a", "b">>, fmt_time(32400), <<"-", "-">>),
      EntryLine(<<"a", "b">>, fmt_time(35100), fmt_time(32400)),
      EntryLine(<<"a", "b">>, <<"1", "3", "-", "4", "5", " ", "1", "0", ":", "0", "0">>, <<"-", "-">>) }

TaskLineChoices ==
    { <<>>,
      << <<"a", "b">> >>,
      << <<"(", "0", "0", ":", "0", "0", ")", " ", " ", " ", "a">> >>,
      << <<"a", "b">>, <<"a", "b">> \o Sep3 \o fmt_time(35100) >> }

DoneLineChoices ==
    { <<>>,
      << <<"c", "d">> \o Sep3 \o fmt_time(36000) >>,
      << <<"a", "b">> \o Sep3 \o fmt_time(36000) >> }

\* A section header: the title and the rule, the title alone, or nothing.
HeaderChoices(word) == { <<TitleLine(word), RuleLine>>, <<TitleLine(word)>>, <<>> }

Docs ==
    { x[1] \o x[2] \o x[3] \o x[4] \o x[5] \o x[6] \o x[7] :
        x \in { <<>>, << <<>> >> }
              \X HeaderChoices(TodoWord) \X TaskLineChoices
              \X HeaderChoices(TimeWord) \X SeqsUpTo(EntryLineChoices, MaxEntries)
              \X HeaderChoices(DoneWord) \X DoneLineChoices }

InitCodec ==
    /\ ops = 0
    /\ res = Failed("")
    /\ calls = <<>>
    /\ file = Absent
    /\ bak = Absent
    /\ pc = "idle"
    /\ \/ /\ \E S \in CodecSheets : todo = S.todo /\ time = S.time /\ done = S.done
          /\ doc = <<>>
          /\ last = NoCall
       \/ /\ todo = <<>> /\ time = <<>> /\ done = <<>>
          /\ doc \in Docs
          /\ last = [NoCall EXCEPT !.op = "edit"]

\* sheet.to_file(file): the text of the Sheet replaces the document.
ToFile ==
    /\ last.op = ""
    /\ \E nowv \in CodecNow :
          /\ doc' = TymeSheet_str(Sheet, nowv)
          /\ last' = [NoCall EXCEPT !.op = "to_file", !.time = nowv]
    /\ UNCHANGED <<todo, time, done, ops, res, calls, file, bak, pc>>

\* TymeSheet.from_file(file), under either treatment of StopIteration in a generator.
FromFile ==
    /\ last.op \in {"to_file", "edit"}
    /\ res.kind = ""
    /\ \E pep479 \in BOOLEAN : res' = from_file(doc, pep479)
    /\ UNCHANGED <<todo, time, done, last, ops, doc, calls, file, bak, pc>>

NextCodec == ToFile \/ FromFile

SpecCodec == InitCodec /\ [][NextCodec]_vars

(***************************************************************************)
(* The filter specification: tag_filter is called on a Sheet, and then on  *)
(* the Sheet that the first call returned.  The Sheet variables hold the   *)
(* receiver of the latest call, res the Sheet it returned, calls the calls.*)
(***************************************************************************)
\* Tags are words: x, y and z.
FilterTaskTags == { <<>>, << <<"x">> >>, << <<"y">>, <<"x">> >> }

\* The arguments of tag_filter.
FilterArgs == { <<>>, << <<"x">> >>, << <<"x">>, <<"y">> >>, << <<"z">> >> }

FilterEntries == { Entry(n, 32400, 35100) : n \in Names }

\* Sheets with up to two pending tasks, one completed task and MaxEntries closed
\* entries; a log may hold entries of names that are in neither collection
\* (clock_in takes any name), and a name may be in both (see C2).
FilterSheets ==
    [todo : {<<>>} \cup { <<Task(n, tg, None)>> : n \in Names, tg \in FilterTaskTags }
                   \cup { <<Task(<<"a", "b">>, t1, None), Task(<<"c", "d">>, t2, None)>> :
                              t1 \in FilterTaskTags, t2 \in FilterTaskTags },
     time : SeqsUpTo(FilterEntries, MaxEntries),
     done : {<<>>} \cup { <<Task(n, tg, 36000)>> : n \in Names, tg \in FilterTaskTags }]

InitFilter ==
    /\ \E S \in FilterSheets : todo = S.todo /\ time = S.time /\ done = S.done
    /\ file \in {Absent, <<>>}
    /\ last = NoCall
    /\ ops = 0
    /\ doc = <<>>
    /\ res = Failed("")
    /\ calls = <<>>
    /\ bak = Absent
    /\ pc = "idle"

\* S.tag_filter(*tags) with all it does: when it builds a Sheet, TymeSheet.__init__
\* saves that Sheet (without backup) if the file does not exist.
Filtered(S, tags, nowv) ==
    LET r == tag_filter(S, tags) IN
    /\ todo' = r.sheet.todo
    /\ time' = r.sheet.time
    /\ done' = r.sheet.done
    /\ res' = [kind |-> "ok", todo |-> r.ret.todo, time |-> r.ret.time, done |-> r.ret.done]
    /\ calls' = Append(calls, [op |-> "tag_filter", tags |-> tags])
    /\ file' = IF tags # <<>> /\ file = Absent THEN TymeSheet_str(r.ret, nowv) ELSE file
    /\ UNCHANGED <<last, ops, doc, bak, pc>>

\* sheet.tag_filter(*tags)
TagFilter ==
    /\ calls = <<>>
    /\ \E tags \in FilterArgs, nowv \in Times : Filtered(Sheet, tags, nowv)

\* sheet.tag_filter(...).tag_filter(*tags): the call on the Sheet returned.
TagFilterAgain ==
    /\ Len(calls) = 1
    /\ \E tags \in FilterArgs, nowv \in Times :
          Filtered([todo |-> res.todo, time |-> res.time, done |-> res.done], tags, nowv)

NextFilter == TagFilter \/ TagFilterAgain

SpecFilter == InitFilter /\ [][NextFilter]_vars

(***************************************************************************)
(* The save specification: one sheet.save(), step by step, on a file that  *)
(* another process may read at any moment.  doc is the string that to_file *)
(* made of the Sheet, file and bak are the contents of the persisted file  *)
(* and of its backup, pc is the statement that save has reached, and res   *)
(* is what a reader that loaded the file meanwhile was given.              *)
(***************************************************************************)
SaveSheets ==
    [todo : { <<>>, <<Task(<<"a", "b">>, <<>>, None)>> },
     time : SeqsUpTo({ Entry(<<"a", "b">>, 32400, 35100) }, MaxEntries),
     done : { <<>>, <<Task(<<"c", "d">>, <<>>, 36000)>> }]

\* The Sheet to save, and the file as an earlier save left it; or no file, when
\* TymeSheet.__init__ saves the new Sheet without backup.
InitSave ==
    /\ \E S \in SaveSheets : todo = S.todo /\ time = S.time /\ done = S.done
    /\ file \in {Absent} \cup { TymeSheet_str(S, 0) : S \in SaveSheets }
    /\ bak = Absent
    /\ pc = "save"
    /\ doc = <<>>
    /\ res = Failed("")
    /\ last = NoCall
    /\ ops = 0
    /\ calls = <<>>

\* save(backup=True), of a command: shutil.copy(self.file, self.file + '~')
SaveCopy ==
    /\ pc = "save"
    /\ file # Absent
    /\ bak' = file
    /\ pc' = "to_file"
    /\ UNCHANGED <<todo, time, done, last, ops, doc, res, calls, file>>

\* save(backup=False), of TymeSheet.__init__ when there is no file: nothing is copied.
SaveNoCopy ==
    /\ pc = "save"
    /\ file = Absent
    /\ pc' = "to_file"
    /\ UNCHANGED <<todo, time, done, last, ops, doc, res, calls, file, bak>>

\* string = str(self)
SaveRender ==
    /\ pc = "to_file"
    /\ \E nowv \in Times : doc' = TymeSheet_str(Sheet, nowv)
    /\ pc' = "open"
    /\ UNCHANGED <<todo, time, done, last, ops, res, calls, file, bak>>

\* open(file, 'w+'): the file is created or truncated.
SaveOpen ==
    /\ pc = "open"
    /\ file' = <<>>
    /\ pc' = "write"
    /\ UNCHANGED <<todo, time, done, last, ops, doc, res, calls, bak>>

\* f.write(string): the text goes to the buffer of f, and any leading part of it
\* (none, some lines, all) may have reached the file when write returns.
SaveWrite ==
    /\ pc = "write"
    /\ \E k \in 0..Len(doc) : file' = SubSeq(doc, 1, k)
    /\ pc' = "close"
    /\ UNCHANGED <<todo, time, done, last, ops, doc, res, calls, bak>>

\* The end of the with block: f is flushed and closed.
SaveClose ==
    /\ pc = "close"
    /\ file' = doc
    /\ pc' = "saved"
    /\ UNCHANGED <<todo, time, done, last, ops, doc, res, calls, bak>>

\* Another process loads the file: TymeSheet.from_file(), once, at any moment.
Load ==
    /\ file # Absent
    /\ res.kind = ""
    /\ \E pep479 \in BOOLEAN : res' = from_file(file, pep479)
    /\ last' = [NoCall EXCEPT !.op = pc]
    /\ UNCHANGED <<todo, time, done, ops, doc, calls, file, bak, pc>>

NextSave == SaveCopy \/ SaveNoCopy \/ SaveRender \/ SaveOpen \/ SaveWrite \/ SaveClose \/ Load

SpecSave == InitSave /\ [][NextSave]_vars

(***************************************************************************)
(* The scenario specification: on an empty Sheet, add_task, clock_in,      *)
(* clock_out and complete_task are called in this order for one task, with *)
(* explicit times; calls holds the calls made.                             *)
(***************************************************************************)
\* The names of the Sheet specification and 'write report'.
ScenarioNames ==
    Names \cup { <<"w", "r", "i", "t", "e", " ", "r", "e", "p", "o", "r", "t">> }

\* The tag lists of the Sheet specification and ['work'].
ScenarioTags == TagLists \cup { << <<"w", "o", "r", "k">> >> }

\* The call's outcome becomes the state, and the call is added to calls.
Step(op, name, tags, t, r) ==
    /\ todo' = r.sheet.todo
    /\ time' = r.sheet.time
    /\ done' = r.sheet.done
    /\ calls' = Append(calls, [op |-> op, name |-> name, tags |-> tags, time |-> t,
                               err |-> r.err])
    /\ UNCHANGED <<last, ops, doc, res, file, bak, pc>>

\* sheet.add_task(name, tags)
ScenarioAdd ==
    /\ calls = <<>>
    /\ \E name \in ScenarioNames, tags \in ScenarioTags :
          Step("add_task", name, tags, None, add_task(Sheet, name, tags))

\* sheet.clock_in(name, t1)
ScenarioIn ==
    /\ Len(calls) = 1
    /\ \E t \in Times, nowv \in Times :
          Step("clock_in", calls[1].name, <<>>, t, clock_in(Sheet, calls[1].name, t, nowv))

\* sheet.clock_out(t2)
ScenarioOut ==
    /\ Len(calls) = 2
    /\ \E t \in Times, nowv \in Times :
          Step("clock_out", <<>>, <<>>, t, clock_out(Sheet, t, nowv))

\* sheet.complete_task(name, t3)
ScenarioComplete ==
    /\ Len(calls) = 3
    /\ \E t \in Times, nowv \in Times :
          Step("complete_task", calls[1].name, <<>>, t,
               complete_task(Sheet, calls[1].name, t, nowv))

NextScenario == ScenarioAdd \/ ScenarioIn \/ ScenarioOut \/ ScenarioComplete

SpecScenario == Init /\ [][NextScenario]_vars

(***************************************************************************)
(* The command specification: tyme is invoked up to MaxCmds times.  One    *)
(* action is one invocation: main loads the Sheet from the file, the       *)
(* command works on it and saves it.  file and bak are the contents of the *)
(* persisted file and of its backup; the Sheet variables hold the Sheet of *)
(* the last invocation, last tells its command and the exception that      *)
(* ended it, and doc keeps the content that the file had before the last   *)
(* save.                                                                   *)
(***************************************************************************)
CmdNames == { <<"a", "b">>, <<"a">> }

\* The -at option: absent, or 01-01 09:00.
CmdTimes == { None, 32400 }

\* now() of an invocation: 01-01 09:45 or 01-01 10:00.
CmdNow == { 35100, 36000 }

EmptySheet == [todo |-> <<>>, time |-> <<>>, done |-> <<>>]

\* main, up to the dispatch: TymeSheet.from_file(), or TymeSheet() when there is
\* no file, whose __init__ then saves the empty Sheet without backup.  The
\* result is that of from_file, with the content of the file after the load.
main_load(f, pep479, nowv) ==
    IF f = Absent
    THEN [kind |-> "ok", todo |-> <<>>, time |-> <<>>, done |-> <<>>,
          file |-> TymeSheet_str(EmptySheet, nowv)]
    ELSE Only({ [kind |-> r.kind, todo |-> r.todo, time |-> r.time, done |-> r.done,
                 file |-> f] : r \in { from_file(f, pep479) } })

\* TymeSheet.from_file(backup), which open() ends when there is no backup.
load_backup(b, pep479) ==
    IF b = Absent THEN Failed("FileNotFoundError") ELSE from_file(b, pep479)

\* The Sheet of a load.
Loaded(ld) == [todo |-> ld.todo, time |-> ld.time, done |-> ld.done]

\* find_task(query): the name that fuzzyfinder ranks first among the pending
\* names, or TymeError when it matches none.  fuzzyfinder is not part of the
\* source: found is its answer, any pending name or none.
find_task(S, found) ==
    IF found \in Keys(S.todo) THEN Ok(S, found) ELSE Raise(S, "TymeError")

\* The end of an invocation whose load was ld and whose command, run on the
\* Sheet loaded, came to r.  An exception of the load ends the process before
\* the command; a TymeError of the command is reported by main and any other
\* exception ends the process, both before save; else sheet.save() copies the
\* file to the backup and writes the Sheet.
Exit(cmd, ld, r, nowv) ==
    /\ ops < MaxCmds
    /\ ops' = ops + 1
    /\ UNCHANGED <<res, calls, pc>>
    /\ IF ld.kind # "ok"
       THEN /\ last' = [NoCall EXCEPT !.op = cmd, !.err = ld.kind]
            /\ file' = ld.file
            /\ UNCHANGED <<todo, time, done, bak, doc>>
       ELSE /\ last' = [NoCall EXCEPT !.op = cmd, !.err = r.err]
            /\ todo' = r.sheet.todo
            /\ time' = r.sheet.time
            /\ done' = r.sheet.done
            /\ IF r.err # ""
               THEN file' = ld.file /\ UNCHANGED <<bak, doc>>
               ELSE /\ bak' = ld.file
                    /\ file' = TymeSheet_str(r.sheet, nowv)
                    /\ doc' = ld.file

\* new_cmd: sheet.add_task(task, tags); sheet.save()
new_cmd(ld, name, tags, nowv) ==
    Exit("new", ld, add_task(Loaded(ld), name, tags), nowv)

\* in_cmd: task = sheet.find_task(query); sheet.clock_in(task, time=args.at); sheet.save()
in_cmd(ld, found, t, nowv) ==
    Exit("in", ld,
         LET f == find_task(Loaded(ld), found)
         IN  IF f.err # "" THEN f ELSE clock_in(f.sheet, f.ret, t, nowv),
         nowv)

\* out_cmd: sheet.clock_out(time=args.at); sheet.save()
out_cmd(ld, t, nowv) ==
    Exit("out", ld, clock_out(Loaded(ld), t, nowv), nowv)

\* complete_cmd: task = sheet.find_task(query); sheet.complete_task(task, time=args.at);
\* sheet.save()
complete_cmd(ld, found, t, nowv) ==
    Exit("complete", ld,
         LET f == find_task(Loaded(ld), found)
         IN  IF f.err # "" THEN f ELSE complete_task(f.sheet, f.ret, t, nowv),
         nowv)

\* What the editor may leave of the text: the text as it was, the text with the
\* line of a task 'cd' put under the rule of Todo, or nothing.
Edited(text, choice) ==
    IF choice = "keep" THEN text
    ELSE IF choice = "add" THEN SubSeq(text, 1, 2) \o << <<"c", "d">> >> \o SubSeq(text, 3, Len(text))
    ELSE <<>>

\* sheet.edit(): str(self) goes to a temporary file, the editor runs on it, and
\* TymeSheet.from_file reads what it left.
edit(S, choice, pep479, nowv) ==
    Only({ IF parsed.kind = "ok" THEN Ok(Loaded(parsed), <<>>) ELSE Raise(S, parsed.kind) :
           parsed \in { from_file(Edited(TymeSheet_str(S, nowv), choice), pep479) } })

\* edit_cmd: sheet = sheet.edit(); sheet.save()
edit_cmd(ld, choice, pep479, nowv) ==
    Exit("edit", ld, edit(Loaded(ld), choice, pep479, nowv), nowv)

\* undo_cmd: old = TymeSheet.from_file(backup); old.save()
undo_cmd(ld, old, nowv) ==
    Exit("undo", ld,
         IF old.kind # "ok" THEN Raise(Loaded(ld), old.kind) ELSE Ok(Loaded(old), <<>>),
         nowv)

NewCmd ==
    \E name \in CmdNames, tags \in TagLists, pep479 \in BOOLEAN, nowv \in CmdNow :
        new_cmd(main_load(file, pep479, nowv), name, tags, nowv)

InCmd ==
    \E found \in CmdNames \cup {<<>>}, t \in CmdTimes, pep479 \in BOOLEAN, nowv \in CmdNow :
        in_cmd(main_load(file, pep479, nowv), found, t, nowv)

OutCmd ==
    \E t \in CmdTimes, pep479 \in BOOLEAN, nowv \in CmdNow :
        out_cmd(main_load(file, pep479, nowv), t, nowv)

CompleteCmd ==
    \E found \in CmdNames \cup {<<>>}, t \in CmdTimes, pep479 \in BOOLEAN, nowv \in CmdNow :
        complete_cmd(main_load(file, pep479, nowv), found, t, nowv)

EditCmd ==
    \E choice \in {"keep", "add", "wipe"}, pep479 \in BOOLEAN, nowv \in CmdNow :
        edit_cmd(main_load(file, pep479, nowv), choice, pep479, nowv)

UndoCmd ==
    \E pep479 \in BOOLEAN, nowv \in CmdNow :
        undo_cmd(main_load(file, pep479, nowv), load_backup(bak, pep479), nowv)

NextCmd == NewCmd \/ InCmd \/ OutCmd \/ CompleteCmd \/ EditCmd \/ UndoCmd

SpecCmd == Init /\ [][NextCmd]_vars

(***************************************************************************)
(* Claims about the Sheet operations, checked under Spec.                  *)
(***************************************************************************)
IsCall(op) == ops' = ops + 1 /\ last'.op = op

SheetUnchanged == todo' = todo /\ time' = time /\ done' = done

\* C1: in every reachable state at most one entry of the time log has a null
\* end, and such an entry is the last element of the log.
C1_OpenEntryIsLast ==
    \A i \in DOMAIN time : time[i].end = None => i = Len(time)

\* C1 witness: a clock_in made while an entry was open has closed it, and the
\* log holds a closed entry followed by the open one.
C1_Witness ==
    /\ last.op = "clock_in"
    /\ last.was # 0
    /\ Len(time) >= 2
    /\ time[Len(time)].end = None
    /\ time[Len(time) - 1].end # None

\* C2: add_task(name, tags) fails with TymeError, and adds nothing, whenever
\* name is already a key of todo or of done.
C2_AddTaskRejectsExisting ==
    [][ (IsCall("add_task") /\ last'.name \in Keys(todo) \cup Keys(done))
            => (last'.err = "TymeError" /\ SheetUnchanged) ]_vars

\* C3: in every reachable state no task name is a key of both todo and done.
C3_TodoDoneDisjoint == Keys(todo) \cap Keys(done) = {}

\* C4: in every reachable state every time-log entry whose end is non-null
\* has end >= start.
C4_EndNotBeforeStart ==
    \A i \in DOMAIN time : time[i].end # None => time[i].end >= time[i].start

\* C5: a call of add_task, clock_in, clock_out or complete_task that fails
\* with TymeError leaves todo, done and the time log exactly as they were.
C5_FailureLeavesSheet ==
    [][ (ops' = ops + 1 /\ last'.err # "") => SheetUnchanged ]_vars

\* C5 witness: a call has failed on a Sheet that holds a task and an entry.
C5_Witness ==
    /\ last.err = "TymeError"
    /\ todo # <<>>
    /\ time # <<>>

\* C7: clock_in(name, t) made while an entry is open closes that entry with
\* end = t, appends an open entry for name with start = t (so the end of the
\* second-to-last entry equals the start of the last), and leaves the earlier
\* entries unchanged.
C7_ClockInClosesAtStart ==
    [][ (IsCall("clock_in") /\ current_entry(Sheet) # 0)
            => LET n == Len(time) IN
               /\ last'.err = ""
               /\ Len(time') = n + 1
               /\ time'[n] = [time[n] EXCEPT !.end = last'.time]
               /\ time'[n + 1] = Entry(last'.name, last'.time, None)
               /\ time'[n].end = time'[n + 1].start
               /\ \A i \in 1..(n - 1) : time'[i] = time[i] ]_vars

\* C7 witness: a clock_in was made while an entry was open, after an earlier
\* entry had already been closed.
C7_Witness ==
    /\ last.op = "clock_in"
    /\ last.was >= 2
    /\ Len(time) = last.was + 1
    /\ time[last.was].end = time[Len(time)].start

\* C8: complete_task(name, t) with name in todo removes name from todo, puts
\* the same task into done with deadline t, and closes the open entry at t if
\* and only if an open entry exists and belongs to name; otherwise the time
\* log is unchanged.
C8_CompleteMovesAndClocksOut ==
    [][ (IsCall("complete_task") /\ last'.name \in Keys(todo))
            => LET name == last'.name
                   t    == last'.time
                   c    == current_entry(Sheet)
               IN
               /\ last'.err = ""
               /\ todo' = DictPop(todo, name)
               /\ name \notin Keys(todo')
               /\ name \in Keys(done')
               /\ DictGet(done', name) = [DictGet(todo, name) EXCEPT !.deadline = t]
               /\ \A other \in Keys(done) \ {name} :
                      other \in Keys(done') /\ DictGet(done', other) = DictGet(done, other)
               /\ IF c # 0 /\ time[c].task = name
                  THEN time' = [time EXCEPT ![c].end = t]
                  ELSE time' = time ]_vars

\* C8 witness: complete_task has closed the open entry of the completed task.
C8_Witness ==
    /\ last.op = "complete_task"
    /\ last.err = ""
    /\ last.was # 0
    /\ time[last.was].task = last.name
    /\ time[last.was].end = last.time
    /\ last.name \in Keys(done)

\* A completion made while the open entry belongs to another task.
C8_OtherTaskOpen ==
    /\ last.op = "complete_task"
    /\ last.err = ""
    /\ last.was # 0
    /\ time[last.was].task # last.name
    /\ time[last.was].end = None

\* C12: over any sequence of calls each task name goes from pending to completed
\* at most once: a name that is in done stays in done with the deadline it was
\* given, never appears in todo again, and a complete_task for it fails.
C12_CompletedOnce ==
    [][ \A name \in Keys(done) :
            /\ name \in Keys(done')
            /\ DictGet(done', name) = DictGet(done, name)
            /\ name \notin Keys(todo')
            /\ (IsCall("complete_task") /\ last'.name = name) => last'.err = "TymeError" ]_vars

\* C13: the time log is append-only and closed entries are immutable: the
\* length of the log never decreases, the task and the start of an entry never
\* change, and an end that is set never changes.
C13_LogAppendOnly ==
    [][ /\ Len(time') >= Len(time)
        /\ \A i \in DOMAIN time :
              /\ time'[i].task = time[i].task
              /\ time'[i].start = time[i].start
              /\ time[i].end # None => time'[i].end = time[i].end ]_vars

\* C13 witness: clock_out was called with another time while the last entry was
\* already closed; the call failed and the entry kept its end.
C13_Witness ==
    /\ last.op = "clock_out"
    /\ last.err = "TymeError"
    /\ time # <<>>
    /\ time[Len(time)].end \notin {None, last.time}

\* C14: the time log is chronological: of two consecutive entries the later
\* one starts neither before the start nor before the end of the earlier one.
C14_Chronological ==
    \A i \in 1..(Len(time) - 1) :
        /\ time[i + 1].start >= time[i].start
        /\ time[i].end # None => time[i + 1].start >= time[i].end

(***************************************************************************)
(* The scenario claim, checked under SpecScenario.                         *)
(***************************************************************************)
\* C18: from an empty Sheet, add_task(name, tags); clock_in(name, t1);
\* clock_out(t2); complete_task(name, t3) with t1 <= t2 <= t3 ends with todo
\* empty, done holding exactly that task with deadline t3 and the given tags,
\* the log holding exactly one closed entry of name from t1 to t2, and the
\* task's total time t2 - t1 (09:00 to 09:45 gives the duration 00:45).
C18_Scenario ==
    (Len(calls) = 4 /\ calls[2].time <= calls[3].time /\ calls[3].time <= calls[4].time)
        => LET name == calls[1].name
               t1   == calls[2].time
               t2   == calls[3].time
               t3   == calls[4].time
           IN
           /\ \A i \in 1..4 : calls[i].err = ""
           /\ todo = <<>>
           /\ done = <<Task(name, calls[1].tags, t3)>>
           /\ time = <<Entry(name, t1, t2)>>
           /\ \A nowv \in Times : SumTime(time, name, nowv) = t2 - t1
           /\ (t1 = 32400 /\ t2 = 35100)
                  => \A nowv \in Times :
                        fmt_delta(SumTime(time, name, nowv)) = <<"(", "0", "0", ":", "4", "5", ")">>

\* C18 witness: the scenario of the specification has been run to its end:
\* 'write report' with the tag 'work', at 09:00, 09:45 and 10:00.
C18_Witness ==
    /\ Len(calls) = 4
    /\ calls[1].name = <<"w", "r", "i", "t", "e", " ", "r", "e", "p", "o", "r", "t">>
    /\ calls[1].tags = << <<"w", "o", "r", "k">> >>
    /\ calls[2].time = 32400
    /\ calls[3].time = 35100
    /\ calls[4].time = 36000
    /\ done # <<>>

(***************************************************************************)
(* Claims about tag_filter, checked under SpecFilter.                      *)
(***************************************************************************)
\* The elements of seq at the indexes idx, in the order of seq.
Picked(seq, idx) ==
    [k \in 1..Cardinality(idx) |->
        seq[CHOOSE i \in idx : Cardinality({ j \in idx : j <= i }) = k]]

\* The tasks of d whose tag set is a superset of the filter set.
Surviving(d, tags) ==
    Picked(d, { i \in DOMAIN d : \A j \in DOMAIN tags :
                                     \E m \in DOMAIN d[i].tags : d[i].tags[m] = tags[j] })

\* The call appended to calls by this step.
FilterCall == calls'[Len(calls')]

\* C15: tag_filter with a non-empty tag set returns a Sheet whose todo and done
\* hold exactly the receiver's tasks whose tag set is a superset of the filter
\* set, in the original order, and whose time log holds exactly the receiver's
\* entries of those tasks, in the original order; the receiver's todo, time
\* and done are unchanged by the call.
C15_FilterProjects ==
    [][ (calls = <<>> /\ calls' # <<>> /\ FilterCall.tags # <<>>)
            => LET ftodo == Surviving(todo, FilterCall.tags)
                   fdone == Surviving(done, FilterCall.tags)
               IN
               /\ res'.todo = ftodo
               /\ res'.done = fdone
               /\ res'.time = Picked(time, { i \in DOMAIN time :
                                               \/ \E j \in DOMAIN ftodo : ftodo[j].name = time[i].task
                                               \/ \E j \in DOMAIN fdone : fdone[j].name = time[i].task })
               /\ SheetUnchanged ]_vars

\* C15 witness: a filter of two tags has kept one of two pending tasks and
\* dropped an entry of the other.
C15_Witness ==
    /\ Len(calls) = 1
    /\ Len(calls[1].tags) = 2
    /\ Len(todo) = 2
    /\ Len(res.todo) = 1
    /\ res.time # <<>>
    /\ Len(res.time) < Len(time)

\* C16: tag_filter() with no arguments returns a Sheet equal to the receiver,
\* and tag_filter(A).tag_filter(A) has the same todo, time and done as
\* tag_filter(A), for every Sheet and every tag set A.
C16_FilterIdempotent ==
    [][ /\ (calls = <<>> /\ calls' # <<>> /\ FilterCall.tags = <<>>)
            => (res'.todo = todo /\ res'.time = time /\ res'.done = done)
        /\ (Len(calls) = 1 /\ Len(calls') = 2 /\ calls'[2].tags = <<>>)
            => (res'.todo = res.todo /\ res'.time = res.time /\ res'.done = res.done)
        /\ (Len(calls) = 1 /\ Len(calls') = 2 /\ calls'[2].tags = calls[1].tags)
            => (res'.todo = res.todo /\ res'.time = res.time /\ res'.done = res.done) ]_vars

\* C16 witness: the same non-empty filter was applied twice, to a Sheet from
\* which the first call had dropped a task and an entry; and a Sheet whose log
\* holds an entry of a task that it does not hold was filtered with no tags.
C16_Witness ==
    \/ /\ Len(calls) = 2
       /\ calls[1].tags # <<>>
       /\ calls[2].tags = calls[1].tags
       /\ res.todo # <<>>
       /\ res.time # <<>>
       /\ res.todo = todo /\ res.time = time
    \/ /\ Len(calls) = 1
       /\ calls[1].tags = <<>>
       /\ \E i \in DOMAIN time : time[i].task \notin Keys(todo) \cup Keys(done)
       /\ res.time = time

(***************************************************************************)
(* Claims about saving, checked under SpecSave.                            *)
(***************************************************************************)
\* C17: saving is atomic for a reader of the persisted file: at every moment
\* of save the file holds the complete text that it held before (which the
\* backup holds once it is made) or the complete new text of the Sheet, never
\* an empty or partly written document.
C17_SaveAtomic ==
    (bak # Absent /\ pc # "save") =>
        \/ file = bak
        \/ \E nowv \in Times : file = TymeSheet_str(Sheet, nowv)

\* A reader loaded the file between the open and the close of to_file and got
\* no Sheet.
C17_ReaderSawTornFile ==
    /\ last.op \in {"write", "close"}
    /\ bak # Absent
    /\ res.kind \notin {"", "ok"}

(***************************************************************************)
(* Claims about the commands, checked under SpecCmd.                       *)
(***************************************************************************)
\* The commands that change the Sheet and save it.
Mutating == {"new", "in", "out", "complete", "edit"}

\* Two documents hold the same Sheet.
SameSheet(f, g) ==
    \A pep479 \in BOOLEAN :
        from_file(f, pep479).kind = "ok" /\ from_file(f, pep479) = from_file(g, pep479)

\* C19: the save of a successful mutating command copies the persisted file to
\* the backup and then writes the new Sheet; an undo run directly after a
\* successful mutating command leaves the file holding the Sheet that it held
\* before that command; and an undo run directly after an undo brings back the
\* Sheet that the first undo replaced.
C19_UndoRestores ==
    [][ /\ (ops' = ops + 1 /\ last'.op \in Mutating /\ last'.err = "")
            => /\ file # Absent => bak' = file
               /\ \E nowv \in CmdNow :
                     file' = TymeSheet_str([todo |-> todo', time |-> time', done |-> done'], nowv)
        /\ (ops' = ops + 1 /\ last'.op = "undo"
                /\ last.op \in Mutating \cup {"undo"} /\ last.err = "")
            => (last'.err = "" /\ SameSheet(file', doc)) ]_vars

\* An undo was run directly after a successful new and did not end well.
C19_UndoFailed ==
    /\ last.op = "undo"
    /\ last.err # ""
    /\ ops = 2
    /\ bak # Absent
    /\ Len(todo) = 1

(***************************************************************************)
(* Claims about the codec, checked under SpecCodec.                        *)
(***************************************************************************)
\* The Sheet was written with to_file and the text read back.
ReadBack == last.op = "to_file" /\ res.kind # ""

\* A document from outside was read.
ReadDoc == last.op = "edit" /\ res.kind # ""

\* C6: for a Sheet that satisfies the global invariants, parsing the text that
\* serializing it produced succeeds and yields the same todo, time and done
\* records in the same order.
C6_RoundTrip ==
    (ReadBack /\ SheetInvariants(Sheet))
        => res = [kind |-> "ok", todo |-> todo, time |-> time, done |-> done]

\* Index of the first header line of word from line i on (0 when there is none).
HeaderAt(lines, word, i) ==
    LET hits == { k \in i..Len(lines) : IsHeader(lines[k], word) }
    IN  IF hits = {} THEN 0 ELSE CHOOSE k \in hits : \A k2 \in hits : k <= k2

\* The lines of the Time section: those after the Time header and its rule, up
\* to the Done header or the end of the document.
TimeSection(d) ==
    LET lines == NonEmptyLines(d)
        t     == HeaderAt(lines, TimeWord, 1)
        dn    == IF t = 0 THEN 0 ELSE HeaderAt(lines, DoneWord, t + 1)
    IN  IF t = 0 THEN <<>>
        ELSE SelectSeq(SubSeq(lines, t + 1, IF dn = 0 THEN Len(lines) ELSE dn - 1),
                       LAMBDA l : ~IsRule(l))

\* An entry line whose end is '--'.
IsOpenEntryLine(l) ==
    Len(l) >= 2 /\ l[Len(l)] = "-" /\ l[Len(l) - 1] = "-" /\ ~IsRule(l)

NonLastOpenEntry(d) ==
    LET E == TimeSection(d) IN \E i \in 1..(Len(E) - 1) : IsOpenEntryLine(E[i])

LastOpenEntryOnly(d) ==
    LET E == TimeSection(d)
    IN  E # <<>> /\ \A i \in DOMAIN E : IsOpenEntryLine(E[i]) <=> i = Len(E)

\* The document has its three headers, each followed by its rule, and every
\* other line is a record line that its parser reads without an error.
WellFormedDoc(d) ==
    LET lines == NonEmptyLines(d)
        n     == Len(lines)
    IN  /\ n >= 6
        /\ IsHeader(lines[1], TodoWord) /\ IsRule(lines[2])
        /\ \E t \in 3..n, dn \in 3..n :
              /\ t + 1 < dn /\ dn + 1 <= n
              /\ IsHeader(lines[t], TimeWord) /\ IsRule(lines[t + 1])
              /\ IsHeader(lines[dn], DoneWord) /\ IsRule(lines[dn + 1])
              /\ \A k \in 3..(t - 1) :
                    ~IsHeader(lines[k], TimeWord) /\ Task_from_string(lines[k]).err = ""
              /\ \A k \in (t + 2)..(dn - 1) :
                    ~IsHeader(lines[k], DoneWord) /\ Entry_from_string(lines[k]).err = ""
              /\ \A k \in (dn + 2)..n :
                    ~IsHeader(lines[k], NoneWord) /\ Task_from_string(lines[k]).err = ""

C9_AcceptedDoc ==
    /\ ReadDoc
    /\ WellFormedDoc(doc)
    /\ LastOpenEntryOnly(doc)
    /\ Len(TimeSection(doc)) >= 2
    /\ res.kind = "ok"

\* A header line of word directly followed by a rule.
HasSection(lines, word) ==
    \E k \in 1..(Len(lines) - 1) : IsHeader(lines[k], word) /\ IsRule(lines[k + 1])

\* C10: for every document parse returns a validated Sheet or fails with
\* ParseError; a document that does not begin with the Todo header and a rule
\* fails with ParseError, and so does one whose Time or Done header (with its
\* rule) is missing.
C10_SheetOrParseError ==
    ReadDoc =>
        LET lines == NonEmptyLines(doc) IN
        /\ res.kind \in {"ok", "ParseError"}
        /\ ~(Len(lines) >= 2 /\ IsHeader(lines[1], TodoWord) /\ IsRule(lines[2]))
               => res.kind = "ParseError"
        /\ (~HasSection(lines, TimeWord) \/ ~HasSection(lines, DoneWord))
               => res.kind = "ParseError"

\* The task names that the record lines of a section of the document give
\* (the section of word, read up to the header of stop).
SectionNames(d, word, stop) ==
    LET lines == NonEmptyLines(d)
        h     == HeaderAt(lines, word, 1)
        e     == IF h = 0 THEN 0 ELSE HeaderAt(lines, stop, h + 1)
        recs  == IF h = 0 THEN <<>>
                 ELSE SelectSeq(SubSeq(lines, h + 1, IF e = 0 THEN Len(lines) ELSE e - 1),
                                LAMBDA l : ~IsRule(l) /\ Task_from_string(l).err = "")
    IN  [k \in DOMAIN recs |-> Task_from_string(recs[k]).val.name]

\* The document lists a task name in Todo and in Done, or twice in one section.
ListsNameTwice(d) ==
    LET td == SectionNames(d, TodoWord, TimeWord)
        dn == SectionNames(d, DoneWord, NoneWord)
    IN  \/ \E i \in DOMAIN td, j \in DOMAIN dn : td[i] = dn[j]
        \/ \E i, j \in DOMAIN td : i # j /\ td[i] = td[j]
        \/ \E i, j \in DOMAIN dn : i # j /\ dn[i] = dn[j]

\* C11: every Sheet that a successful parse returns has no task name in both
\* todo and done, and a document that lists the same task name in the Todo
\* section and in the Done section, or twice within one section, is rejected
\* instead of being loaded.
C11_ParsedNamesDisjoint ==
    ReadDoc =>
        /\ res.kind = "ok" => Keys(res.todo) \cap Keys(res.done) = {}
        /\ ListsNameTwice(doc) => res.kind # "ok"

\* A document that lists a name in Todo and in Done was loaded.
C11_LoadedNameTwice ==
    /\ ReadDoc
    /\ res.kind = "ok"
    /\ Keys(res.todo) \cap Keys(res.done) # {}

====
